---- MODULE Spec2Model ----
(***************************************************************************)
(* Model of the eos-bios boot orchestration (type BIOS): building the      *)
(* producer schedule (ShuffleProducers), resolving the local role and the  *)
(* local producer definitions, batching boot actions (chunkifyActions) and *)
(* the sequential Run of the boot node, an appointed block producer or a   *)
(* participant.                                                            *)
(*                                                                         *)
(* Account and organization names are sequences of byte values (Go         *)
(* strings); 97 is 'a', 46 is '.'.                                         *)
(***************************************************************************)
EXTENDS Integers, Sequences, FiniteSets, TLC

VARIABLES
    Producers,            \* LaunchData.Producers
    BootSequence,         \* LaunchData.BootSequence
    MyAccount,            \* Config.Producer.MyAccount
    NoShuffle,            \* Config.Debug.NoShuffle
    ShuffleBlock,         \* BIOS.ShuffleBlock {Time, MerkleRoot}
    ShuffledProducers,    \* BIOS.ShuffledProducers
    MyProducerDefs,       \* BIOS.MyProducerDefs
    EphemeralPrivateKey,  \* BIOS.EphemeralPrivateKey (NoKey = nil)
    pc,                   \* position of the single thread of control
    err,                  \* error returned to the caller ("" = nil)
    step,                 \* index of the BootSequence step being run
    chunks,               \* chunkifyActions result of the current step
    idx,                  \* index of the chunk being pushed
    genesisData,          \* local genesisData of RunBootNodeStage1
    kickstart,            \* KickstartData decoded by waitOnKickstartData
    keyBag,               \* keys imported in API.Signer
    chain,                \* transactions accepted by the chain client
    acct,                 \* last answer of API.GetAccount("eosio")
    polls,                \* number of GetAccount calls made
    trace,                \* every collaborator call made so far, in order
    actions,              \* argument of a direct chunkifyActions call
    chunkSize,            \* argument of a direct chunkifyActions call
    out,                  \* result of a direct chunkifyActions call
    lines,                \* text returned by ScanLinesUntilBlank
    payload,              \* KickstartData handed to the encoder directly
    eosio                 \* what the chain answers to GetAccount("eosio") now

launchVars == <<Producers, BootSequence, MyAccount, NoShuffle>>
biosVars   == <<ShuffleBlock, ShuffledProducers, MyProducerDefs, EphemeralPrivateKey>>
runVars    == <<pc, err, step, chunks, idx, genesisData, kickstart>>
envVars    == <<keyBag, chain, acct, polls, trace>>
chunkVars  == <<actions, chunkSize, out>>
codecVars  == <<lines, payload>>
vars == <<launchVars, biosVars, runVars, envVars, chunkVars, codecVars, eosio>>

----------------------------------------------------------------------------
(* Bounds of the model.                                                    *)

MaxProducers == 23   \* longest candidate list
HeadLen      == 3    \* leading candidates whose names are chosen freely
MaxSteps     == 2    \* longest BootSequence
MaxActions   == 802  \* longest action list given to chunkifyActions directly
MaxPolls     == 3    \* GetAccount calls modelled in the ABP poll loop
MaxInserted  == 1    \* white space characters inserted one by one in a relayed text

(* Program constants.                                                      *)

ScheduleSize  == 22   \* full schedule: boot node + 21 appointed producers
PushChunkSize == 400  \* chunk size RunBootNodeStage1 passes to chunkifyActions
MaxNameLen    == 10   \* accountVariation keeps this many bytes of the name
ByteMod       == 256  \* width of a Go byte

----------------------------------------------------------------------------
(* Names.                                                                  *)

NameA    == <<97>>                                          \* "a"
NameB    == <<98>>                                          \* "b"
NameBA   == <<98, 46, 97>>                                  \* "b.a"
NameLong == <<108, 111, 110, 103, 110, 97, 109, 101, 120, 121, 122>>  \* "longnamexyz"
NameNone == <<122, 122>>                                    \* "zz", in no launch file

NamePool == {NameA, NameB, NameBA, NameLong}

\* "p" followed by the two decimal digits of i
FillerName(i) == <<112, 48 + (i \div 10), 48 + (i % 10)>>

\* fmt.Sprintf("%d", n) for 0 <= n < 100
Decimal(n) == IF n < 10 THEN <<48 + n>> ELSE <<48 + (n \div 10), 48 + (n % 10)>>

\* " - clone "
CloneLabel == <<32, 45, 32, 99, 108, 111, 110, 101, 32>>

\* A ProducerDef as loaded from the launch file: `name` at position i.
\* clonedFrom is unexported, so a loaded definition has it empty.
LaunchProducer(name, i) ==
    [AccountName                  |-> name,
     Authority                    |-> i,
     InitialBlockSigningPublicKey |-> i,
     KeybaseUser                  |-> i,
     PGPPublicKey                 |-> i,
     OrganizationName             |-> <<111>> \o Decimal(i),
     Timezone                     |-> i,
     URLs                         |-> i,
     clonedFrom                   |-> <<>>]

\* The candidate lists: L producers, the first HeadLen named freely from
\* NamePool (duplicates allowed), the others named p03, p04, ...
CandidateList(head, L) ==
    [i \in 1..L |-> LaunchProducer(IF i <= HeadLen THEN head[i] ELSE FillerName(i), i)]

CandidateLists ==
    {CandidateList(head, L) : head \in [1..HeadLen -> NamePool], L \in 0..MaxProducers}

----------------------------------------------------------------------------
(* accountVariation(name, variation)                                       *)

\* accountVariation counting the variations from 0.
accountVariationFromZero(name, variation) ==
    LET short == IF Len(name) > MaxNameLen THEN SubSeq(name, 1, MaxNameLen) ELSE name
    IN  short \o <<46>> \o <<(97 + (variation % ByteMod)) % ByteMod>>

accountVariation(name, variation) ==
    LET short == IF Len(name) > MaxNameLen THEN SubSeq(name, 1, MaxNameLen) ELSE name
    IN  short \o <<46>> \o <<(97 + ((variation - 1) % ByteMod)) % ByteMod>>

----------------------------------------------------------------------------
(* chunkifyActions(actions, chunkSize)                                     *)

\* chunkifyBody flushing a chunk that has reached the chunk size.
chunkifyBodyAtSize(st, size, act) ==
    IF Len(st.currentChunk) >= size
    THEN [out |-> Append(st.out, st.currentChunk), currentChunk |-> <<act>>]
    ELSE [out |-> st.out, currentChunk |-> Append(st.currentChunk, act)]

\* chunkifyBody losing the action that closes a chunk.
chunkifyBodyDropping(st, size, act) ==
    IF Len(st.currentChunk) > size
    THEN [out |-> Append(st.out, st.currentChunk), currentChunk |-> <<>>]
    ELSE [out |-> st.out, currentChunk |-> Append(st.currentChunk, act)]

\* One iteration of the range loop, on the loop's variables `out` and
\* `currentChunk`, for the element `act`.
chunkifyBody(st, size, act) ==
    IF Len(st.currentChunk) > size
    THEN [out |-> Append(st.out, st.currentChunk), currentChunk |-> <<act>>]
    ELSE [out |-> st.out, currentChunk |-> Append(st.currentChunk, act)]

\* The iterations for the elements lo..hi, in order.  The range is halved and
\* the state after the left half is computed before the right half starts, to
\* keep the evaluation shallow: the test on `left` is always true.
RECURSIVE chunkifyRange(_, _, _, _, _)
chunkifyRange(st, acts, size, lo, hi) ==
    IF lo > hi THEN st
    ELSE IF lo = hi THEN chunkifyBody(st, size, acts[lo])
    ELSE LET mid  == (lo + hi) \div 2
             left == chunkifyRange(st, acts, size, lo, mid)
         IN  IF Len(left.currentChunk) >= 0
             THEN chunkifyRange(left, acts, size, mid + 1, hi)
             ELSE st

chunkifyActions(acts, size) ==
    LET end == chunkifyRange([out |-> <<>>, currentChunk |-> <<>>], acts, size, 1, Len(acts))
    IN  IF Len(end.currentChunk) > 0 THEN Append(end.out, end.currentChunk) ELSE end.out

----------------------------------------------------------------------------
(* Inputs from outside the process.                                        *)

NoKey == 0
Keys  == {1, 2}                 \* private keys ecc.NewRandomPrivateKey may return
PublicKey(priv) == priv + 100   \* ecc.PrivateKey.PublicKey

ZeroTime   == [sec |-> 0, nsec |-> 0]
BlockTimes == {[sec |-> 1, nsec |-> 0]}          \* blockTime given by the caller
NowTimes   == {[sec |-> 2, nsec |-> 500]}        \* time.Now()

ZeroRoot    == [i \in 1..16 |-> 0]
MerkleRoots == {[i \in 1..4 |-> i]}              \* btcMerkleRoot given by the caller

\* A BootSequence step carries its operation tag and the number of actions its
\* payload resolves to.
StepCounts == {0, 1, 3, 401, 450, 802}
BootSequences ==
    UNION {[1..n -> [Op : {"op"}, n : StepCounts]] : n \in 0..MaxSteps}

Step(n) == [Op |-> "op", n |-> n]

\* Actions of a step: the i-th action of step s is <<s, i>>.
StepActions(s, n) == [i \in 1..n |-> <<s, i>>]

MyAccounts == NamePool \cup {FillerName(HeadLen + 1), FillerName(MaxProducers), NameNone}

----------------------------------------------------------------------------
(* State after NewBIOS.                                                    *)

InitBIOS ==
    /\ pc = "ShuffleProducers"
    /\ actions = <<>>
    /\ chunkSize = 0
    /\ out = <<>>
    /\ payload = <<>>

InitState ==
    /\ ShuffleBlock = [Time |-> ZeroTime, MerkleRoot |-> <<>>]
    /\ ShuffledProducers = <<>>
    /\ MyProducerDefs = <<>>
    /\ EphemeralPrivateKey = NoKey
    /\ err = ""
    /\ step = 0
    /\ chunks = <<>>
    /\ idx = 0
    /\ genesisData = <<>>
    /\ kickstart = <<>>
    /\ keyBag = {}
    /\ chain = <<>>
    /\ acct = <<>>
    /\ polls = 0
    /\ trace = <<>>
    /\ lines = <<>>
    /\ eosio = <<>>

\* The boot sequence of two steps resolving to 450 and 3 actions.
TwoSteps == <<Step(450), Step(3)>>

\* Candidates a, b, longnamexyz, p04, p05, ...
RunHead ==
    [i \in 1..HeadLen |-> IF i = 1 THEN NameA ELSE IF i = 2 THEN NameB
                          ELSE IF i = 3 THEN NameLong ELSE FillerName(i)]

\* Runs of every role: a single candidate, schedules that are padded, full
\* and longer than the schedule size, with the local account first, second,
\* last or absent.
InitRoles ==
    /\ Producers \in {CandidateList(RunHead, L) : L \in {1, 5, ScheduleSize, MaxProducers}}
    /\ MyAccount \in {NameA, NameB, FillerName(MaxProducers), NameNone}
    /\ NoShuffle \in BOOLEAN
    /\ BootSequence = TwoSteps

\* Runs of the boot node on any boot sequence.
InitBoot ==
    /\ Producers = CandidateList(RunHead, 5)
    /\ MyAccount = NameA
    /\ NoShuffle = TRUE
    /\ BootSequence \in BootSequences

Init == InitState /\ InitBIOS /\ (InitRoles \/ InitBoot)

----------------------------------------------------------------------------
(* The caller of the BIOS methods is not part of the sources at hand: it   *)
(* is taken to call ShuffleProducers, then setMyProducerDefs, then Run,    *)
(* and to stop at the first error.                                         *)

AfterShuffleProducers == "setMyProducerDefs"
AfterMyProducerDefs   == "DispatchInit"

----------------------------------------------------------------------------
(* ShuffleProducers(btcMerkleRoot, blockTime)                              *)

\* Go's a % b for a >= 0 and b # 0
GoRem(a, b) == IF b > 0 THEN a % b ELSE a % (0 - b)

\* The clone appended when `count` has already been incremented.
ClonedProd(fromProd, count) ==
    [AccountName                  |-> accountVariation(fromProd.AccountName, count),
     Authority                    |-> fromProd.Authority,
     InitialBlockSigningPublicKey |-> fromProd.InitialBlockSigningPublicKey,
     KeybaseUser                  |-> fromProd.KeybaseUser,
     PGPPublicKey                 |-> fromProd.PGPPublicKey,
     OrganizationName             |-> fromProd.OrganizationName \o CloneLabel \o Decimal(count),
     Timezone                     |-> fromProd.Timezone,
     URLs                         |-> fromProd.URLs,
     clonedFrom                   |-> fromProd.AccountName]

\* FromIndex cycling over every producer, the first included.
FromIndexAll(count, cloneCount) == GoRem(count, cloneCount)

\* 0-based index of the producer cloned when `count` clones exist
FromIndex(count, cloneCount) == 1 + GoRem(count, cloneCount)

\* The padding loop panics: integer divide by zero (cloneCount = 0) or index
\* out of range.
PadPanics(sp) ==
    /\ Len(sp) < ScheduleSize
    /\ \/ Len(sp) - 1 = 0
       \/ FromIndex(0, Len(sp) - 1) >= Len(sp)

\* The padding loop, for a list on which it does not panic.
RECURSIVE PadLoop(_, _, _)
PadLoop(sp, cloneCount, count) ==
    IF Len(sp) = ScheduleSize
    THEN sp
    ELSE LET fromProd == sp[FromIndex(count, cloneCount) + 1]
         IN  PadLoop(Append(sp, ClonedProd(fromProd, count + 1)), cloneCount, count + 1)

\* PadSchedule cutting a longer list down to the schedule size.
PadScheduleCut(sp) ==
    IF Len(sp) < ScheduleSize THEN PadLoop(sp, Len(sp) - 1, 0) ELSE SubSeq(sp, 1, ScheduleSize)

PadSchedule(sp) ==
    IF Len(sp) < ScheduleSize THEN PadLoop(sp, Len(sp) - 1, 0) ELSE sp

ShuffleProducers ==
    /\ pc = "ShuffleProducers"
    /\ \E btcMerkleRoot \in MerkleRoots, blockTime \in BlockTimes, now \in NowTimes :
          ShuffleBlock' = IF NoShuffle
                          THEN [Time |-> now, MerkleRoot |-> ZeroRoot]
                          ELSE [Time |-> blockTime, MerkleRoot |-> btcMerkleRoot]
    /\ IF PadPanics(Producers)
       THEN /\ ShuffledProducers' = Producers
            /\ pc' = "panic"
       ELSE /\ ShuffledProducers' = PadSchedule(Producers)
            /\ pc' = AfterShuffleProducers
    /\ UNCHANGED <<launchVars, MyProducerDefs, EphemeralPrivateKey>>
    /\ UNCHANGED <<err, step, chunks, idx, genesisData, kickstart>>
    /\ UNCHANGED <<envVars, chunkVars, codecVars, eosio>>

----------------------------------------------------------------------------
(* Role resolution.                                                        *)

IsBootNode(account) == ShuffledProducers[1].AccountName = account

AmIBootNode == IsBootNode(MyAccount)

\* IsAppointedBlockProducer looking one slot further.
IsAppointedBlockProducerTo22(account) ==
    \E i \in 1..ScheduleSize :
        /\ Len(ShuffledProducers) > i
        /\ ShuffledProducers[i + 1].AccountName = account

IsAppointedBlockProducer(account) ==
    \E i \in 1..(ScheduleSize - 1) :
        /\ Len(ShuffledProducers) > i
        /\ ShuffledProducers[i + 1].AccountName = account

AmIAppointedBlockProducer == IsAppointedBlockProducer(MyAccount)

----------------------------------------------------------------------------
(* MyProducerDef and setMyProducerDefs                                     *)

NoProducerErr == "no local producer config found"

\* MyProducerDef searching `list` instead of the launch file.
FirstNamed(list, account) ==
    LET matches == {i \in 1..Len(list) : list[i].AccountName = account}
    IN  IF matches = {}
        THEN [prod |-> <<>>, err |-> NoProducerErr]
        ELSE [prod |-> list[CHOOSE i \in matches : \A j \in matches : i <= j], err |-> ""]

MyProducerDefFromSchedule == FirstNamed(ShuffledProducers, MyAccount)

\* The first launch producer named MyAccount, as the range loop returns it,
\* or the error.
MyProducerDef == FirstNamed(Producers, MyAccount)

IsCloneOfAnyone(prod, myProd) == prod.clonedFrom # <<>>

IsCloneOf(prod, myProd) == prod.clonedFrom = myProd.AccountName

\* The list setMyProducerDefs stores for myProd.
MyProducerDefsOut(myProd) ==
    <<myProd>> \o SelectSeq(ShuffledProducers, LAMBDA prod : IsCloneOf(prod, myProd))

setMyProducerDefs ==
    /\ pc = "setMyProducerDefs"
    /\ LET r == MyProducerDef
       IN  IF r.err = ""
           THEN /\ MyProducerDefs' = MyProducerDefsOut(r.prod)
                /\ err' = ""
                /\ pc' = AfterMyProducerDefs
           ELSE /\ MyProducerDefs' = MyProducerDefs
                /\ err' = r.err
                /\ pc' = "exit"
    /\ UNCHANGED <<launchVars, ShuffleBlock, ShuffledProducers, EphemeralPrivateKey>>
    /\ UNCHANGED <<step, chunks, idx, genesisData, kickstart>>
    /\ UNCHANGED <<envVars, chunkVars, codecVars, eosio>>

----------------------------------------------------------------------------
(* Strings and the kickstart wire format.                                  *)
(*                                                                         *)
(* json.Marshal of a struct of string fields is modelled as '{' followed   *)
(* by the fields in declaration order, each between double quotes with     *)
(* '"' and '\' escaped by '\', followed by '}'.  A text handed to base64   *)
(* is a sequence of characters: 0..63 stand for the 64 base64 digits,      *)
(* CharNL, CharSP, CharTAB and CharBang for "\n", " ", "\t" and "!".       *)

CharNL   == 64
CharSP   == 65
CharTAB  == 66
CharBang == 67

\* Escape leaving '\' as it is.
RECURSIVE EscapeQuotes(_)
EscapeQuotes(s) ==
    IF s = <<>> THEN <<>>
    ELSE (IF s[1] = 34 THEN <<92, s[1]>> ELSE <<s[1]>>) \o EscapeQuotes(Tail(s))

RECURSIVE Escape(_)
Escape(s) ==
    IF s = <<>> THEN <<>>
    ELSE (IF s[1] \in {34, 92} THEN <<92, s[1]>> ELSE <<s[1]>>) \o Escape(Tail(s))

RECURSIVE Marshal(_)
Marshal(fields) ==
    IF fields = <<>> THEN <<>>
    ELSE <<34>> \o Escape(fields[1]) \o <<34>> \o Marshal(Tail(fields))

jsonMarshal(fields) == <<123>> \o Marshal(fields) \o <<125>>

\* Scans a quoted string whose opening quote is before position i.
\* Gives [ok, s, next]: the unescaped string and the position after the
\* closing quote.
RECURSIVE ScanString(_, _, _)
ScanString(b, i, acc) ==
    IF i > Len(b) THEN [ok |-> FALSE, s |-> acc, next |-> i]
    ELSE IF b[i] = 34 THEN [ok |-> TRUE, s |-> acc, next |-> i + 1]
    ELSE IF b[i] = 92
         THEN IF i + 1 > Len(b) \/ b[i + 1] \notin {34, 92}
              THEN [ok |-> FALSE, s |-> acc, next |-> i]
              ELSE ScanString(b, i + 2, Append(acc, b[i + 1]))
         ELSE ScanString(b, i + 1, Append(acc, b[i]))

\* Scans the fields of an object from position i on, up to the closing brace,
\* which must be the last byte.
RECURSIVE ScanFields(_, _, _)
ScanFields(b, i, acc) ==
    IF i > Len(b) THEN [ok |-> FALSE, fields |-> acc]
    ELSE IF b[i] = 125 THEN [ok |-> i = Len(b), fields |-> acc]
    ELSE IF b[i] = 34
         THEN LET r == ScanString(b, i + 1, <<>>)
              IN  IF r.ok THEN ScanFields(b, r.next, Append(acc, r.s))
                  ELSE [ok |-> FALSE, fields |-> acc]
         ELSE [ok |-> FALSE, fields |-> acc]

\* json.Unmarshal into a struct of string fields: fields absent from the
\* text stay empty, fields the struct does not have are ignored.
jsonUnmarshal(b) ==
    IF Len(b) = 0 \/ b[1] # 123 THEN [ok |-> FALSE, fields |-> <<>>]
    ELSE ScanFields(b, 2, <<>>)

Field(fields, i) == IF i <= Len(fields) THEN fields[i] ELSE <<>>

\* base64.RawStdEncoding.EncodeToString
RECURSIVE base64Encode(_)
base64Encode(b) ==
    IF Len(b) = 0 THEN <<>>
    ELSE IF Len(b) = 1 THEN <<b[1] \div 4, (b[1] % 4) * 16>>
    ELSE IF Len(b) = 2
         THEN <<b[1] \div 4, (b[1] % 4) * 16 + (b[2] \div 16), (b[2] % 16) * 4>>
         ELSE <<b[1] \div 4, (b[1] % 4) * 16 + (b[2] \div 16),
                (b[2] % 16) * 4 + (b[3] \div 64), b[3] % 64>>
              \o base64Encode(SubSeq(b, 4, Len(b)))

RECURSIVE base64Quanta(_)
base64Quanta(d) ==
    IF Len(d) = 0 THEN <<>>
    ELSE IF Len(d) = 2 THEN <<d[1] * 4 + (d[2] \div 16)>>
    ELSE IF Len(d) = 3
         THEN <<d[1] * 4 + (d[2] \div 16), (d[2] % 16) * 16 + (d[3] \div 4)>>
         ELSE <<d[1] * 4 + (d[2] \div 16), (d[2] % 16) * 16 + (d[3] \div 4),
                (d[3] % 4) * 64 + d[4]>>
              \o base64Quanta(SubSeq(d, 5, Len(d)))

\* base64.RawStdEncoding.DecodeString: newlines in the input are skipped, any
\* other character that is no base64 digit is an error, and so is a single
\* trailing digit.
base64Decode(text) ==
    LET d == SelectSeq(text, LAMBDA c : c # CharNL)
    IN  IF (\E i \in 1..Len(d) : d[i] \notin 0..63) \/ Len(d) % 4 = 1
        THEN [ok |-> FALSE, bytes |-> <<>>]
        ELSE [ok |-> TRUE, bytes |-> base64Quanta(d)]

IsSpace(c) == c \in {CharNL, CharSP, CharTAB}

\* strings.TrimSpace
RECURSIVE TrimLeft(_)
TrimLeft(text) ==
    IF text # <<>> /\ IsSpace(text[1]) THEN TrimLeft(Tail(text)) ELSE text

RECURSIVE TrimRight(_)
TrimRight(text) ==
    IF text # <<>> /\ IsSpace(text[Len(text)])
    THEN TrimRight(SubSeq(text, 1, Len(text) - 1)) ELSE text

\* TrimSpace trimming the left end only.
TrimSpaceLeft(text) == TrimLeft(text)

TrimSpace(text) == TrimRight(TrimLeft(text))

\* strings.Replace(text, "\n", "", -1)
RemoveNewlines(text) == SelectSeq(text, LAMBDA c : c # CharNL)

\* ecc.PrivateKey.String and ecc.PublicKey.String: '5' resp. 'E' and the key
PrivateKeyString(priv) == <<53, priv>>
PublicKeyString(pub)   == <<69, pub>>

\* ecc.NewPrivateKey(wif)
NewPrivateKey(wif) ==
    IF Len(wif) = 2 /\ wif[1] = 53 /\ wif[2] \in Keys
    THEN [ok |-> TRUE, key |-> wif[2]]
    ELSE [ok |-> FALSE, key |-> NoKey]

\* time.Time.UTC().Format("2006-01-02T15:04:05"): the seconds, no fraction
FormatTime(t) == <<48 + t.sec>>

\* hex.EncodeToString
HexDigit(d) == IF d < 10 THEN 48 + d ELSE 87 + d
RECURSIVE hexEncode(_)
hexEncode(b) ==
    IF b = <<>> THEN <<>>
    ELSE <<HexDigit(b[1] \div 16), HexDigit(b[1] % 16)>> \o hexEncode(Tail(b))

ChainID          == <<171>>          \* API.ChainID
SecretP2PAddress == <<104, 58, 57>>  \* Config.Producer.SecretP2PAddress, "h:9"

GenerateGenesisJSON(pubKey) ==
    jsonMarshal(<<FormatTime(ShuffleBlock.Time), pubKey, hexEncode(ChainID)>>)

\* KickstartData with the two keys in each other's field.
KickstartDataSwapped(pubKey, privKey, genesis) ==
    [BIOSP2PAddress |-> SecretP2PAddress,
     PublicKeyUsed  |-> privKey,
     PrivateKeyUsed |-> pubKey,
     GenesisJSON    |-> genesis]

\* The KickstartData built by RunBootNodeStage1 and its published text.
KickstartData(pubKey, privKey, genesis) ==
    [BIOSP2PAddress |-> SecretP2PAddress,
     PublicKeyUsed  |-> pubKey,
     PrivateKeyUsed |-> privKey,
     GenesisJSON    |-> genesis]

KickstartFields(kd) ==
    <<kd.BIOSP2PAddress, kd.PublicKeyUsed, kd.PrivateKeyUsed, kd.GenesisJSON>>

EncodeKickstart(kd) == base64Encode(jsonMarshal(KickstartFields(kd)))

----------------------------------------------------------------------------
(* Collaborators: hooks, chain client, terminal.                           *)

\* A collaborator call as recorded in `trace`.
Event(op, ok, arg) == [op |-> op, ok |-> ok, arg |-> arg]

\* What ScanLinesUntilBlank may return besides an error: a published text, the
\* same text with one character inserted anywhere, and two texts that are
\* valid base64 but hold no kickstart data.
PublishedTexts ==
    {EncodeKickstart(KickstartData(PublicKeyString(PublicKey(k)), PrivateKeyString(k),
                                   jsonMarshal(<<FormatTime(t), PublicKeyString(PublicKey(k)),
                                                 hexEncode(ChainID)>>))) :
        k \in Keys, t \in BlockTimes \cup NowTimes}

InsertAt(text, i, c) == SubSeq(text, 1, i) \o <<c>> \o SubSeq(text, i + 1, Len(text))

NotJSONText == base64Encode(<<104, 105>>)
BadKeyText  ==
    EncodeKickstart(KickstartData(PublicKeyString(PublicKey(1)), <<53>>, <<123, 125>>))

ScannedTexts ==
    PublishedTexts
    \cup UNION {{InsertAt(text, i, c) :
                   i \in 0..Len(text), c \in {CharNL, CharSP, CharTAB, CharBang}} :
                text \in PublishedTexts}
    \cup {NotJSONText, BadKeyText}

\* What API.GetAccount("eosio") may answer besides an error: the thresholds
\* of the account's permissions, in order.
AccountAnswers == {<<0>>, <<0, 0>>, <<0, 1>>, <<1, 0>>, <<0, 0, 0>>}

Exit(e) == pc' = "exit" /\ err' = e

----------------------------------------------------------------------------
(* Run: init hook and branch on the role.                                  *)

\* The stage Run enters after the init hook.
RoleStage ==
    IF AmIBootNode THEN "RunBootNodeStage1"
    ELSE IF AmIAppointedBlockProducer THEN "RunABPStage1"
    ELSE "WaitStage1End"

\* DispatchInit with the hook's error dropped.
DispatchInitIgnoringError ==
    /\ pc = "DispatchInit"
    /\ \E ok \in BOOLEAN :
          trace' = Append(trace, Event("DispatchInit", ok, <<>>))
    /\ pc' = RoleStage
    /\ UNCHANGED <<launchVars, biosVars, err, step, chunks, idx, genesisData, kickstart>>
    /\ UNCHANGED <<keyBag, chain, acct, polls, chunkVars, codecVars, eosio>>

DispatchInit ==
    /\ pc = "DispatchInit"
    /\ \E ok \in BOOLEAN :
          /\ trace' = Append(trace, Event("DispatchInit", ok, <<>>))
          /\ IF ok THEN pc' = RoleStage /\ err' = err
                   ELSE Exit("failed init hook")
    /\ UNCHANGED <<launchVars, biosVars, step, chunks, idx, genesisData, kickstart>>
    /\ UNCHANGED <<keyBag, chain, acct, polls, chunkVars, codecVars, eosio>>

----------------------------------------------------------------------------
(* RunBootNodeStage1                                                       *)

\* Key generation, first statement of the stage.
GenerateEphemeralPrivKey ==
    /\ pc = "RunBootNodeStage1"
    /\ \E ok \in BOOLEAN :
          /\ trace' = Append(trace, Event("GenerateEphemeralPrivKey", ok, <<>>))
          /\ IF ok
             THEN /\ \E k \in Keys : EphemeralPrivateKey' = k
                  /\ pc' = "ImportPrivateKey"
                  /\ err' = err
             ELSE /\ EphemeralPrivateKey' = EphemeralPrivateKey
                  /\ Exit("boot node stage1: random key")
    /\ UNCHANGED <<launchVars, ShuffleBlock, ShuffledProducers, MyProducerDefs>>
    /\ UNCHANGED <<step, chunks, idx, genesisData, kickstart>>
    /\ UNCHANGED <<keyBag, chain, acct, polls, chunkVars, codecVars, eosio>>

pubKey  == PublicKeyString(PublicKey(EphemeralPrivateKey))
privKey == PrivateKeyString(EphemeralPrivateKey)

\* Import in the signer, then the genesis descriptor is built.
ImportPrivateKey ==
    /\ pc = "ImportPrivateKey"
    /\ \E ok \in BOOLEAN :
          /\ trace' = Append(trace, Event("ImportPrivateKey", ok, privKey))
          /\ IF ok
             THEN /\ keyBag' = keyBag \cup {privKey}
                  /\ genesisData' = GenerateGenesisJSON(pubKey)
                  /\ pc' = "DispatchStartBIOSBoot"
                  /\ err' = err
             ELSE /\ keyBag' = keyBag
                  /\ genesisData' = genesisData
                  /\ Exit("boot node stage1: ImportWIF")
    /\ UNCHANGED <<launchVars, biosVars, step, chunks, idx, kickstart>>
    /\ UNCHANGED <<chain, acct, polls, chunkVars, codecVars, eosio>>

\* Position of the boot sequence loop when it turns to step s (1-based): the
\* step's actions are resolved next, or the loop is over.
LoopAt(s) ==
    /\ step' = s
    /\ chunks' = <<>>
    /\ idx' = 0
    /\ pc' = IF s <= Len(BootSequence) THEN "Actions" ELSE "DispatchPublishKickstartData"

DispatchStartBIOSBoot ==
    /\ pc = "DispatchStartBIOSBoot"
    /\ \E ok \in BOOLEAN :
          /\ trace' = Append(trace, Event("DispatchStartBIOSBoot", ok,
                                          <<genesisData, pubKey, privKey>>))
          /\ IF ok
             THEN LoopAt(1) /\ err' = err
             ELSE Exit("boot node stage1: dispatch config_ready hook")
                  /\ UNCHANGED <<step, chunks, idx>>
    /\ UNCHANGED <<launchVars, biosVars, genesisData, kickstart>>
    /\ UNCHANGED <<keyBag, chain, acct, polls, chunkVars, codecVars, eosio>>

\* step.Data.Actions(b), and chunkifyActions when there are actions.
Actions ==
    /\ pc = "Actions"
    /\ \E ok \in BOOLEAN :
          /\ trace' = Append(trace, Event("Actions", ok, step))
          /\ IF ok
             THEN LET acts == StepActions(step, BootSequence[step].n)
                  IN  /\ IF Len(acts) # 0
                         THEN /\ chunks' = chunkifyActions(acts, PushChunkSize)
                              /\ idx' = 0
                              /\ step' = step
                              /\ pc' = "SignPushActions"
                         ELSE LoopAt(step + 1)
                      /\ err' = err
             ELSE Exit("boot node stage1: getting actions for step")
                  /\ UNCHANGED <<step, chunks, idx>>
    /\ UNCHANGED <<launchVars, biosVars, genesisData, kickstart>>
    /\ UNCHANGED <<keyBag, chain, acct, polls, chunkVars, codecVars, eosio>>

\* SignPushActions going on with the next chunk after a rejected one.
SignPushActionsIgnoringError ==
    /\ pc = "SignPushActions"
    /\ \E ok \in BOOLEAN :
          /\ trace' = Append(trace, Event("SignPushActions", ok,
                                          [step |-> step, idx |-> idx,
                                           size |-> Len(chunks[idx + 1])]))
          /\ chain' = IF ok THEN Append(chain, [step |-> step, idx |-> idx,
                                                acts |-> chunks[idx + 1]])
                            ELSE chain
    /\ IF idx + 1 < Len(chunks)
       THEN /\ idx' = idx + 1
            /\ UNCHANGED <<step, chunks, pc>>
       ELSE LoopAt(step + 1)
    /\ UNCHANGED <<launchVars, biosVars, err, genesisData, kickstart>>
    /\ UNCHANGED <<keyBag, acct, polls, chunkVars, codecVars, eosio>>

\* SignPushActions withdrawing the step's accepted chunks when one is rejected.
SignPushActionsRollingBack ==
    /\ pc = "SignPushActions"
    /\ \E ok \in BOOLEAN :
          /\ trace' = Append(trace, Event("SignPushActions", ok,
                                          [step |-> step, idx |-> idx,
                                           size |-> Len(chunks[idx + 1])]))
          /\ IF ok
             THEN /\ chain' = Append(chain, [step |-> step, idx |-> idx,
                                             acts |-> chunks[idx + 1]])
                  /\ IF idx + 1 < Len(chunks)
                     THEN /\ idx' = idx + 1
                          /\ UNCHANGED <<step, chunks, pc>>
                     ELSE LoopAt(step + 1)
                  /\ err' = err
             ELSE /\ chain' = SelectSeq(chain, LAMBDA tx : tx.step # step)
                  /\ Exit("boot node stage1: SignPushActions for step, chunk")
                  /\ UNCHANGED <<step, chunks, idx>>
    /\ UNCHANGED <<launchVars, biosVars, genesisData, kickstart>>
    /\ UNCHANGED <<keyBag, acct, polls, chunkVars, codecVars, eosio>>

\* API.SignPushActions(chunk...) for chunk idx (0-based) of the step.
SignPushActions ==
    /\ pc = "SignPushActions"
    /\ \E ok \in BOOLEAN :
          /\ trace' = Append(trace, Event("SignPushActions", ok,
                                          [step |-> step, idx |-> idx,
                                           size |-> Len(chunks[idx + 1])]))
          /\ IF ok
             THEN /\ chain' = Append(chain, [step |-> step, idx |-> idx,
                                             acts |-> chunks[idx + 1]])
                  /\ IF idx + 1 < Len(chunks)
                     THEN /\ idx' = idx + 1
                          /\ UNCHANGED <<step, chunks, pc>>
                     ELSE LoopAt(step + 1)
                  /\ err' = err
             ELSE /\ chain' = chain
                  /\ Exit("boot node stage1: SignPushActions for step, chunk")
                  /\ UNCHANGED <<step, chunks, idx>>
    /\ UNCHANGED <<launchVars, biosVars, genesisData, kickstart>>
    /\ UNCHANGED <<keyBag, acct, polls, chunkVars, codecVars, eosio>>

\* The kickstart text is built, printed and handed to the hook.
DispatchPublishKickstartData ==
    /\ pc = "DispatchPublishKickstartData"
    /\ LET ksdata == EncodeKickstart(KickstartData(pubKey, privKey, genesisData))
       IN  \E ok \in BOOLEAN :
              /\ trace' = Append(trace, Event("DispatchPublishKickstartData", ok, ksdata))
              /\ IF ok THEN pc' = "regproducer" /\ err' = err
                       ELSE Exit("boot node stage1: dispatch publish_kickstart_data")
    /\ UNCHANGED <<launchVars, biosVars, step, chunks, idx, genesisData, kickstart>>
    /\ UNCHANGED <<keyBag, chain, acct, polls, chunkVars, codecVars, eosio>>

----------------------------------------------------------------------------
(* waitOnKickstartData, RunABPStage1, WaitStage1End                        *)

\* waitOnKickstartData on the scanned text: the returned error, the decoded
\* data and the parsed private key.
waitOnKickstartData(scanned) ==
    LET raw    == base64Decode(RemoveNewlines(TrimSpace(scanned)))
        parsed == jsonUnmarshal(raw.bytes)
        data   == [BIOSP2PAddress |-> Field(parsed.fields, 1),
                   PublicKeyUsed  |-> Field(parsed.fields, 2),
                   PrivateKeyUsed |-> Field(parsed.fields, 3),
                   GenesisJSON    |-> Field(parsed.fields, 4)]
        key    == NewPrivateKey(data.PrivateKeyUsed)
    IN  IF ~raw.ok THEN [err |-> "kickstart base64 decode", kickstart |-> <<>>, key |-> NoKey]
        ELSE IF ~parsed.ok
             THEN [err |-> "unmarshal kickstart data", kickstart |-> <<>>, key |-> NoKey]
        ELSE IF ~key.ok
             THEN [err |-> "unable to load private key", kickstart |-> <<>>, key |-> NoKey]
        ELSE [err |-> "", kickstart |-> data, key |-> key.key]

\* WaitOnKickstart going on to the connect hook whatever the decoder returned.
WaitOnKickstartIgnoringError(stage, connect, wrap) ==
    /\ pc = stage
    /\ \E scanned \in ScannedTexts :
          LET r == waitOnKickstartData(scanned)
          IN  /\ trace' = Append(trace, Event("ScanLinesUntilBlank", TRUE, <<>>))
              /\ lines' = scanned
              /\ kickstart' = r.kickstart
              /\ EphemeralPrivateKey' = r.key
              /\ pc' = connect
    /\ UNCHANGED <<launchVars, ShuffleBlock, ShuffledProducers, MyProducerDefs>>
    /\ UNCHANGED <<err, step, chunks, idx, genesisData>>
    /\ UNCHANGED <<keyBag, chain, acct, polls, chunkVars, payload, eosio>>

\* The call of waitOnKickstartData that opens the stage `stage`; `connect` is
\* the position after a successful return, `wrap` what Run puts before the
\* stage's error.
WaitOnKickstart(stage, connect, wrap) ==
    /\ pc = stage
    /\ \/ /\ trace' = Append(trace, Event("ScanLinesUntilBlank", FALSE, <<>>))
          /\ Exit(wrap \o "scan lines")
          /\ UNCHANGED <<kickstart, EphemeralPrivateKey, lines>>
       \/ \E scanned \in ScannedTexts :
             LET r == waitOnKickstartData(scanned)
             IN  /\ trace' = Append(trace, Event("ScanLinesUntilBlank", TRUE, <<>>))
                 /\ lines' = scanned
                 /\ IF r.err = ""
                    THEN /\ kickstart' = r.kickstart
                         /\ EphemeralPrivateKey' = r.key
                         /\ pc' = connect
                         /\ err' = err
                    ELSE /\ Exit(wrap \o r.err)
                         /\ UNCHANGED <<kickstart, EphemeralPrivateKey>>
    /\ UNCHANGED <<launchVars, ShuffleBlock, ShuffledProducers, MyProducerDefs>>
    /\ UNCHANGED <<step, chunks, idx, genesisData>>
    /\ UNCHANGED <<keyBag, chain, acct, polls, chunkVars, payload, eosio>>

RunABPStage1 == WaitOnKickstart("RunABPStage1", "DispatchConnectAsABP", "abp stage1: ")

DispatchConnectAsABP ==
    /\ pc = "DispatchConnectAsABP"
    /\ \E ok \in BOOLEAN :
          /\ trace' = Append(trace, Event("DispatchConnectAsABP", ok,
                                          <<kickstart, MyProducerDefs>>))
          /\ IF ok THEN pc' = "GetAccount" /\ err' = err
                   ELSE Exit("abp stage1: connect hook")
    /\ UNCHANGED <<launchVars, biosVars, step, chunks, idx, genesisData, kickstart>>
    /\ UNCHANGED <<keyBag, chain, acct, polls, chunkVars, codecVars, eosio>>

\* SystemAccountDisabled looking at the first permission only.
SystemAccountDisabledFirst(perms) ==
    ~(Len(perms) # 2 \/ perms[1] # 0)

\* The test that ends the poll loop, on a successful answer.
SystemAccountDisabled(perms) ==
    ~(Len(perms) # 2 \/ perms[1] # 0 \/ perms[2] # 0)

\* One iteration of the poll loop: sleep, GetAccount, test.
GetAccount ==
    /\ pc = "GetAccount"
    /\ polls < MaxPolls
    /\ polls' = polls + 1
    /\ \/ /\ trace' = Append(trace, Event("GetAccount", FALSE, <<>>))
          /\ acct' = <<>>
          /\ pc' = pc
       \/ \E perms \in AccountAnswers :
             /\ trace' = Append(trace, Event("GetAccount", TRUE, <<>>))
             /\ acct' = perms
             /\ pc' = IF SystemAccountDisabled(perms) THEN "regproducer" ELSE pc
    /\ UNCHANGED <<launchVars, biosVars, err, step, chunks, idx, genesisData, kickstart>>
    /\ UNCHANGED <<keyBag, chain, chunkVars, codecVars, eosio>>

WaitStage1End ==
    WaitOnKickstart("WaitStage1End", "DispatchConnectAsParticipant", "waiting stage1: ")

\* DispatchConnectAsParticipant followed by the appointed producers' poll.
DispatchConnectAsParticipantThenPoll ==
    /\ pc = "DispatchConnectAsParticipant"
    /\ \E ok \in BOOLEAN :
          /\ trace' = Append(trace, Event("DispatchConnectAsParticipant", ok,
                                          <<kickstart, MyProducerDefs[1]>>))
          /\ IF ok THEN pc' = "GetAccount" /\ err' = err
                   ELSE Exit("waiting stage1: connect hook")
    /\ UNCHANGED <<launchVars, biosVars, step, chunks, idx, genesisData, kickstart>>
    /\ UNCHANGED <<keyBag, chain, acct, polls, chunkVars, codecVars, eosio>>

DispatchConnectAsParticipant ==
    /\ pc = "DispatchConnectAsParticipant"
    /\ \E ok \in BOOLEAN :
          /\ trace' = Append(trace, Event("DispatchConnectAsParticipant", ok,
                                          <<kickstart, MyProducerDefs[1]>>))
          /\ IF ok THEN pc' = "regproducer" /\ err' = err
                   ELSE Exit("waiting stage1: connect hook")
    /\ UNCHANGED <<launchVars, biosVars, step, chunks, idx, genesisData, kickstart>>
    /\ UNCHANGED <<keyBag, chain, acct, polls, chunkVars, codecVars, eosio>>

----------------------------------------------------------------------------
(* Run: registration and done hook.                                        *)

\* regproducer going on to the done hook after a rejected registration.
regproducerIgnoringError ==
    /\ pc = "regproducer"
    /\ \E ok \in BOOLEAN :
          /\ trace' = Append(trace, Event("regproducer", ok, MyAccount))
          /\ chain' = IF ok THEN Append(chain, [regproducer |-> MyAccount]) ELSE chain
    /\ pc' = "DispatchDone"
    /\ UNCHANGED <<launchVars, biosVars, err, step, chunks, idx, genesisData, kickstart>>
    /\ UNCHANGED <<keyBag, acct, polls, chunkVars, codecVars, eosio>>

regproducer ==
    /\ pc = "regproducer"
    /\ \E ok \in BOOLEAN :
          /\ trace' = Append(trace, Event("regproducer", ok, MyAccount))
          /\ IF ok
             THEN /\ chain' = Append(chain, [regproducer |-> MyAccount])
                  /\ pc' = "DispatchDone"
                  /\ err' = err
             ELSE /\ chain' = chain
                  /\ Exit("regproducer")
    /\ UNCHANGED <<launchVars, biosVars, step, chunks, idx, genesisData, kickstart>>
    /\ UNCHANGED <<keyBag, acct, polls, chunkVars, codecVars, eosio>>

DispatchDone ==
    /\ pc = "DispatchDone"
    /\ \E ok \in BOOLEAN :
          /\ trace' = Append(trace, Event("DispatchDone", ok, <<>>))
          /\ Exit(IF ok THEN "" ELSE "done hook")
    /\ UNCHANGED <<launchVars, biosVars, step, chunks, idx, genesisData, kickstart>>
    /\ UNCHANGED <<keyBag, chain, acct, polls, chunkVars, codecVars, eosio>>

----------------------------------------------------------------------------

Next ==
    \/ ShuffleProducers
    \/ setMyProducerDefs
    \/ DispatchInit
    \/ GenerateEphemeralPrivKey
    \/ ImportPrivateKey
    \/ DispatchStartBIOSBoot
    \/ Actions
    \/ SignPushActions
    \/ DispatchPublishKickstartData
    \/ RunABPStage1
    \/ DispatchConnectAsABP
    \/ GetAccount
    \/ WaitStage1End
    \/ DispatchConnectAsParticipant
    \/ regproducer
    \/ DispatchDone

Spec == Init /\ [][Next]_vars

----------------------------------------------------------------------------
(* Building the schedule and resolving the role, on any candidate list and *)
(* local account: the calls up to the branch Run takes on the role.        *)

InitSchedule ==
    /\ InitState
    /\ InitBIOS
    /\ Producers \in CandidateLists
    /\ MyAccount \in MyAccounts
    /\ NoShuffle \in BOOLEAN
    /\ BootSequence = TwoSteps

NextSchedule ==
    \/ ShuffleProducers
    \/ setMyProducerDefs
    \/ DispatchInit

SpecSchedule == InitSchedule /\ [][NextSchedule]_vars

----------------------------------------------------------------------------
(* chunkifyActions called on its own, on any action list and chunk size.   *)

ChunkSizes == {-1, 0, 1, 3, PushChunkSize}

InitChunk ==
    /\ InitState
    /\ Producers = <<>>
    /\ BootSequence = <<>>
    /\ MyAccount = NameNone
    /\ NoShuffle = TRUE
    /\ pc = "chunkifyActions"
    /\ \E n \in 0..MaxActions : actions = StepActions(1, n)
    /\ chunkSize \in ChunkSizes
    /\ out = <<>>
    /\ payload = <<>>

CallChunkify ==
    /\ pc = "chunkifyActions"
    /\ out' = chunkifyActions(actions, chunkSize)
    /\ pc' = "chunked"
    /\ UNCHANGED <<launchVars, biosVars, err, step, chunks, idx, genesisData, kickstart>>
    /\ UNCHANGED <<envVars, actions, chunkSize, codecVars, eosio>>

NextChunk == CallChunkify

SpecChunk == InitChunk /\ [][NextChunk]_vars

----------------------------------------------------------------------------
(* Batching: chunkifyActions called on its own, and the boot node's run on *)
(* any boot sequence, steps without actions included.                      *)

InitBatch ==
    \/ InitChunk
    \/ InitState /\ InitBIOS /\ InitBoot

NextBatch ==
    \/ CallChunkify
    \/ ShuffleProducers
    \/ setMyProducerDefs
    \/ DispatchInit
    \/ GenerateEphemeralPrivKey
    \/ ImportPrivateKey
    \/ DispatchStartBIOSBoot
    \/ Actions
    \/ SignPushActions
    \/ DispatchPublishKickstartData
    \/ regproducer
    \/ DispatchDone

SpecBatch == InitBatch /\ [][NextBatch]_vars

----------------------------------------------------------------------------
(* The kickstart data on its way from the boot node to another node: built *)
(* and encoded as in RunBootNodeStage1, relayed by hand, scanned and       *)
(* decoded by waitOnKickstartData.                                         *)

\* "\"\\", an address that needs escaping
QuotedAddress == <<34, 92>>

\* Kickstart data with a private key that parses; the public key need not
\* belong to it.
Payloads ==
    {[BIOSP2PAddress |-> a,
      PublicKeyUsed  |-> PublicKeyString(PublicKey(kp)),
      PrivateKeyUsed |-> PrivateKeyString(k),
      GenesisJSON    |-> jsonMarshal(<<FormatTime(t), PublicKeyString(PublicKey(kp)),
                                       hexEncode(ChainID)>>)] :
        a \in {SecretP2PAddress, QuotedAddress}, kp \in Keys, k \in Keys, t \in BlockTimes}

Spaces == {CharNL, CharSP, CharTAB}

\* `text` with at most n white space characters inserted, anywhere
RECURSIVE Inserted(_, _)
Inserted(text, n) ==
    IF n = 0 THEN {text}
    ELSE LET less == Inserted(text, n - 1)
         IN  less \cup UNION {{InsertAt(t, i, c) : i \in 0..Len(t), c \in Spaces} : t \in less}

\* `text` with the white space character c after every w characters
RECURSIVE Wrap(_, _, _)
Wrap(text, w, c) ==
    IF Len(text) <= w THEN text \o <<c>>
    ELSE SubSeq(text, 1, w) \o <<c>> \o Wrap(SubSeq(text, w + 1, Len(text)), w, c)

\* What the text may have become when it is scanned.
Relayed(text) ==
    Inserted(text, MaxInserted)
    \cup {Wrap(text, w, c) : w \in 1..Len(text), c \in Spaces}

InitCodec ==
    /\ InitState
    /\ Producers = <<>>
    /\ BootSequence = <<>>
    /\ MyAccount = NameNone
    /\ NoShuffle = TRUE
    /\ pc = "EncodeKickstart"
    /\ actions = <<>>
    /\ chunkSize = 0
    /\ out = <<>>
    /\ payload \in Payloads

\* json.Marshal and base64 encoding of the kickstart data
CallEncodeKickstart ==
    /\ pc = "EncodeKickstart"
    /\ lines' = EncodeKickstart(payload)
    /\ pc' = "ScanLinesUntilBlank"
    /\ UNCHANGED <<launchVars, biosVars, err, step, chunks, idx, genesisData, kickstart>>
    /\ UNCHANGED <<envVars, chunkVars, payload, eosio>>

\* The published text is relayed and scanned.
ScanLinesUntilBlank ==
    /\ pc = "ScanLinesUntilBlank"
    /\ lines' \in Relayed(lines)
    /\ pc' = "waitOnKickstartData"
    /\ UNCHANGED <<launchVars, biosVars, err, step, chunks, idx, genesisData, kickstart>>
    /\ UNCHANGED <<envVars, chunkVars, payload, eosio>>

\* waitOnKickstartData from its second statement on
CallWaitOnKickstartData ==
    /\ pc = "waitOnKickstartData"
    /\ LET r == waitOnKickstartData(lines)
       IN  /\ err' = r.err
           /\ kickstart' = r.kickstart
           /\ EphemeralPrivateKey' = IF r.err = "" THEN r.key ELSE EphemeralPrivateKey
    /\ pc' = "decoded"
    /\ UNCHANGED <<launchVars, ShuffleBlock, ShuffledProducers, MyProducerDefs>>
    /\ UNCHANGED <<step, chunks, idx, genesisData>>
    /\ UNCHANGED <<envVars, chunkVars, codecVars, eosio>>

NextCodec ==
    \/ CallEncodeKickstart
    \/ ScanLinesUntilBlank
    \/ CallWaitOnKickstartData

SpecCodec == InitCodec /\ [][NextCodec]_vars

----------------------------------------------------------------------------
(* The run of an appointed producer with the chain as it changes while it  *)
(* is polled.  The loop of RunABPStage1 sleeps and reads for ever, so its  *)
(* iterations are counted up to MaxPolls only and leave no event in        *)
(* `trace`.                                                                *)

\* GetAccount returning an error
ReadError == <<-1>>

ChainReports == AccountAnswers \cup {ReadError}

InitPoll ==
    /\ InitState
    /\ InitBIOS
    /\ Producers = CandidateList(RunHead, 5)
    /\ MyAccount = NameB
    /\ NoShuffle = TRUE
    /\ BootSequence = TwoSteps

\* The chain's answer changes while the appointed producer polls.
ChainChanges ==
    /\ pc = "GetAccount"
    /\ eosio' \in ChainReports \ {eosio}
    /\ UNCHANGED <<launchVars, biosVars, runVars, envVars, chunkVars, codecVars>>

\* PollAccount giving up at the first read that fails.
PollAccountGivingUp ==
    /\ pc = "GetAccount"
    /\ polls' = IF polls < MaxPolls THEN polls + 1 ELSE polls
    /\ IF eosio = ReadError
       THEN /\ acct' = <<>>
            /\ Exit("abp stage1: get account")
       ELSE /\ acct' = eosio
            /\ pc' = IF SystemAccountDisabled(eosio) THEN "regproducer" ELSE pc
            /\ err' = err
    /\ UNCHANGED <<launchVars, biosVars, step, chunks, idx, genesisData, kickstart>>
    /\ UNCHANGED <<keyBag, chain, trace, chunkVars, codecVars, eosio>>

\* One iteration of the poll loop: sleep, GetAccount, test.
PollAccount ==
    /\ pc = "GetAccount"
    /\ polls' = IF polls < MaxPolls THEN polls + 1 ELSE polls
    /\ IF eosio = ReadError
       THEN /\ acct' = <<>>
            /\ pc' = pc
       ELSE /\ acct' = eosio
            /\ pc' = IF SystemAccountDisabled(eosio) THEN "regproducer" ELSE pc
    /\ UNCHANGED <<launchVars, biosVars, err, step, chunks, idx, genesisData, kickstart>>
    /\ UNCHANGED <<keyBag, chain, trace, chunkVars, codecVars, eosio>>

NextPoll ==
    \/ ShuffleProducers
    \/ setMyProducerDefs
    \/ DispatchInit
    \/ RunABPStage1
    \/ DispatchConnectAsABP
    \/ ChainChanges
    \/ PollAccount
    \/ regproducer
    \/ DispatchDone

\* The thread of control is scheduled again after each sleep of the loop.
SpecPoll == InitPoll /\ [][NextPoll]_vars /\ WF_vars(PollAccount)

----------------------------------------------------------------------------
(* Properties of Run.                                                      *)

\* The role of the local account as the specification words it: slot 0 is
\* the boot node, slots 1..21 the appointed producers.
ClaimedRole ==
    IF MyAccount = ShuffledProducers[1].AccountName THEN "BootNode"
    ELSE IF \E slot \in 1..21 :
               /\ slot + 1 <= Len(ShuffledProducers)
               /\ ShuffledProducers[slot + 1].AccountName = MyAccount
         THEN "AppointedProducer"
         ELSE "Participant"

\* The collaborator calls of each role's stage, and the call that ends it.
StageOps ==
    [BootNode          |-> {"GenerateEphemeralPrivKey", "ImportPrivateKey",
                            "DispatchStartBIOSBoot", "Actions", "SignPushActions",
                            "DispatchPublishKickstartData"},
     AppointedProducer |-> {"ScanLinesUntilBlank", "DispatchConnectAsABP", "GetAccount"},
     Participant       |-> {"ScanLinesUntilBlank", "DispatchConnectAsParticipant"}]

StageLastOp ==
    [BootNode          |-> "DispatchPublishKickstartData",
     AppointedProducer |-> "GetAccount",
     Participant       |-> "DispatchConnectAsParticipant"]

Positions(op) == {i \in 1..Len(trace) : trace[i].op = op}

\* A failed call that fails Run: a failed GetAccount only makes the appointed
\* producer poll again.
Fatal(e) == ~e.ok /\ e.op # "GetAccount"

\* C1: in a run that completes successfully, whatever the role, the init hook
\* comes first, then the calls of the role's stage up to the call that ends
\* it, then exactly one regproducer for the local account, then the done hook;
\* regproducer is never submitted before the stage has finished (for the boot
\* node: after the actions of every step were resolved and the kickstart data
\* published), and the done hook is never dispatched before regproducer
\* succeeded.
C1_RunOrder ==
    /\ \A i \in Positions("DispatchInit") : i = 1
    /\ \A i \in Positions("regproducer") :
          /\ i > 2
          /\ trace[1].op = "DispatchInit" /\ trace[1].ok
          /\ \A j \in 2..(i - 1) : trace[j].op \in StageOps[ClaimedRole]
          /\ trace[i - 1].op = StageLastOp[ClaimedRole] /\ trace[i - 1].ok
          /\ ClaimedRole = "BootNode" =>
                Cardinality({j \in Positions("Actions") : trace[j].ok}) = Len(BootSequence)
          /\ trace[i].arg = MyAccount
    /\ \A i \in Positions("DispatchDone") :
          i > 1 /\ trace[i - 1].op = "regproducer" /\ trace[i - 1].ok
    /\ (pc = "exit" /\ err = "") =>
          /\ trace # <<>>
          /\ trace[Len(trace)].op = "DispatchDone" /\ trace[Len(trace)].ok
          /\ Cardinality(Positions("DispatchInit")) = 1
          /\ Cardinality(Positions("regproducer")) = 1
          /\ Cardinality(Positions("DispatchDone")) = 1

\* A boot node has run to the end, with batches and its registration on chain.
C1_Witness ==
    /\ pc = "exit" /\ err = ""
    /\ ClaimedRole = "BootNode"
    /\ Len(chain) > 3

\* Errors of Run that come before the role's stage, and after it.
InitErr  == "failed init hook"
LateErrs == {"regproducer", "done hook"}

\* C2: when the init hook, the role's stage or regproducer fails, Run ends in
\* failure and nothing later is executed: a failed call is the last call made,
\* after a failed init hook no stage call was made, after a failed stage no
\* regproducer was submitted, and the done hook is dispatched only when every
\* earlier call succeeded.
C2_FailStop ==
    /\ err # "" => pc = "exit"
    /\ \A i \in 1..Len(trace) :
          Fatal(trace[i]) => i = Len(trace) /\ pc = "exit" /\ err # ""
    /\ err = InitErr => Len(trace) = 1
    /\ (err # "" /\ err # InitErr /\ err \notin LateErrs) =>
          Positions("regproducer") = {} /\ Positions("DispatchDone") = {}
    /\ err = "regproducer" => Positions("DispatchDone") = {}
    /\ \A i \in Positions("DispatchDone") :
          \A j \in 1..(i - 1) : trace[j].ok \/ trace[j].op = "GetAccount"

\* An appointed producer's stage has failed on a private key that does not
\* parse, after a successful init hook.
C2_Witness ==
    /\ pc = "exit"
    /\ err = "abp stage1: unable to load private key"
    /\ Len(trace) = 2

\* The SignPushActions calls made so far, in order.
pushes == SelectSeq(trace, LAMBDA e : e.op = "SignPushActions")

\* Number of actions of step s accepted by the chain client.
Accepted(s) ==
    LET mine == SelectSeq(pushes, LAMBDA e : e.ok /\ e.arg.step = s)
        sum[k \in 0..Len(mine)] == IF k = 0 THEN 0 ELSE sum[k - 1] + mine[k].arg.size
    IN  sum[Len(mine)]

\* C3: the boot node submits batches one at a time, by step and by batch
\* index within a step, each only after every earlier batch was accepted; once
\* a batch fails nothing more is submitted, the kickstart data is not
\* published and the run aborts; the kickstart data is published only when
\* every action of every step was accepted.  For two steps of 450 and 3
\* actions the batches are two of step 1 and one of step 2, and a failure of
\* step 1's second batch leaves step 2 without any submission.
C3_BatchOrder ==
    /\ \A k \in 1..Len(pushes) :
          /\ k = 1 => pushes[k].arg.idx = 0
          /\ k > 1 =>
               /\ pushes[k - 1].ok
               /\ \/ /\ pushes[k].arg.step = pushes[k - 1].arg.step
                     /\ pushes[k].arg.idx = pushes[k - 1].arg.idx + 1
                  \/ /\ pushes[k].arg.step > pushes[k - 1].arg.step
                     /\ pushes[k].arg.idx = 0
    /\ \A i \in Positions("SignPushActions") :
          ~trace[i].ok =>
             /\ i = Len(trace)
             /\ pc = "exit"
             /\ err = "boot node stage1: SignPushActions for step, chunk"
    /\ \A i \in Positions("DispatchPublishKickstartData") :
          /\ \A j \in 1..(i - 1) : trace[j].ok
          /\ \A s \in 1..Len(BootSequence) : Accepted(s) = BootSequence[s].n
    /\ BootSequence = TwoSteps =>
          /\ \A k \in 1..Len(pushes) :
                pushes[k].arg = <<[step |-> 1, idx |-> 0, size |-> 401],
                                  [step |-> 1, idx |-> 1, size |-> 49],
                                  [step |-> 2, idx |-> 0, size |-> 3]>>[k]
          /\ Positions("DispatchPublishKickstartData") # {} => Len(pushes) = 3

\* Step 1's second batch was rejected: the run is over with two submissions.
C3_Witness ==
    /\ BootSequence = TwoSteps
    /\ pc = "exit"
    /\ Len(pushes) = 2
    /\ ~pushes[2].ok
    /\ Len(chain) = 1

----------------------------------------------------------------------------
(* Properties of chunkifyActions.                                          *)

Sizes(cs) == [k \in 1..Len(cs) |-> Len(cs[k])]

\* C4: at chunk size 400 a batch is closed only when it holds more than 400
\* actions and another action arrives: no batch holds more than 401 actions,
\* every batch but the last holds exactly 401, the last holds the rest, and
\* 0, 1, 400, 401, 402, 800 and 801 actions give the batch sizes [], [1],
\* [400], [401], [401,1], [401,399] and [401,400].
C4_ChunkSizes ==
    (pc = "chunked" /\ chunkSize = 400) =>
        LET sizes == Sizes(out)
            n     == Len(actions)
            m     == Len(sizes)
        IN  /\ \A k \in 1..m : sizes[k] >= 1 /\ sizes[k] <= 401
            /\ \A k \in 1..(m - 1) : sizes[k] = 401
            /\ (m = 0) = (n = 0)
            /\ m > 0 => 401 * (m - 1) + sizes[m] = n
            /\ n = 0 => sizes = <<>>
            /\ n = 1 => sizes = <<1>>
            /\ n = 400 => sizes = <<400>>
            /\ n = 401 => sizes = <<401>>
            /\ n = 402 => sizes = <<401, 1>>
            /\ n = 800 => sizes = <<401, 399>>
            /\ n = 801 => sizes = <<401, 400>>

\* 801 actions were batched at chunk size 400.
C4_Witness ==
    /\ pc = "chunked"
    /\ chunkSize = 400
    /\ Len(actions) = 801
    /\ Len(out) = 2

----------------------------------------------------------------------------
(* Properties of the schedule and of the local producer definitions.       *)

Shuffled == pc \notin {"ShuffleProducers", "chunkifyActions", "chunked"}

\* C5, as claimed: for every candidate list of 1 to 21 entries
\* ShuffleProducers returns normally, with a schedule of exactly 22 entries
\* that starts with the candidates in their input order.
C5_PadsEveryShortList ==
    (Shuffled /\ Len(Producers) >= 1 /\ Len(Producers) < 22) =>
        /\ pc # "panic"
        /\ Len(ShuffledProducers) = 22
        /\ ShuffledProducers[1] = Producers[1]
        /\ SubSeq(ShuffledProducers, 1, Len(Producers)) = Producers

\* The fields a clone copies from its source.
SameCopied(clone, src) ==
    /\ clone.Authority = src.Authority
    /\ clone.InitialBlockSigningPublicKey = src.InitialBlockSigningPublicKey
    /\ clone.KeybaseUser = src.KeybaseUser
    /\ clone.PGPPublicKey = src.PGPPublicKey
    /\ clone.Timezone = src.Timezone
    /\ clone.URLs = src.URLs

\* Candidates (0-based) cloned into slots 5..21 of a schedule of 5 candidates.
CloneCycle5 == <<1, 2, 3, 4, 1, 2, 3, 4, 1, 2, 3, 4, 1, 2, 3, 4, 1>>

\* C6: padding L candidates, 2 <= L < 22, the i-th appended clone is derived
\* from candidates[1 + (i-1) mod (L-1)] (0-based) and its clone source is that
\* candidate's account; candidate 0 is never cloned; with 5 candidates slots
\* 5..21 cycle through candidates 1..4 in order.
C6_CloneSources ==
    LET L == Len(Producers)
    IN  (Shuffled /\ L >= 2 /\ L < 22) =>
            /\ pc # "panic"
            /\ Len(ShuffledProducers) = 22
            /\ \A i \in 1..(22 - L) :
                  LET src   == Producers[(1 + ((i - 1) % (L - 1))) + 1]
                      clone == ShuffledProducers[L + i]
                  IN  /\ clone.clonedFrom = src.AccountName
                      /\ SameCopied(clone, src)
                      /\ clone.Authority # Producers[1].Authority
            /\ L = 5 =>
                  \A slot \in 5..21 :
                      SameCopied(ShuffledProducers[slot + 1],
                                 Producers[CloneCycle5[slot - 4] + 1])

\* Five candidates were padded to a full schedule.
C6_Witness ==
    /\ pc = "setMyProducerDefs"
    /\ Len(Producers) = 5
    /\ Len(ShuffledProducers) = 22
    /\ ShuffledProducers[22].clonedFrom = Producers[2].AccountName

\* C7: without shuffle and with 22 candidates or more, the schedule is the
\* candidate list itself, same length and order and no clone, and the seed
\* recorded is sixteen zero bytes.
C7_LongListUnchanged ==
    (Shuffled /\ NoShuffle /\ Len(Producers) >= 22) =>
        /\ pc # "panic"
        /\ ShuffledProducers = Producers
        /\ \A i \in 1..Len(ShuffledProducers) : ShuffledProducers[i].clonedFrom = <<>>
        /\ ShuffleBlock.MerkleRoot = <<0, 0, 0, 0, 0, 0, 0, 0, 0, 0, 0, 0, 0, 0, 0, 0>>

\* A list of more than 22 candidates went through ShuffleProducers unshuffled.
C7_Witness ==
    /\ pc = "setMyProducerDefs"
    /\ NoShuffle
    /\ Len(Producers) > 22

StageName ==
    [BootNode          |-> "RunBootNodeStage1",
     AppointedProducer |-> "RunABPStage1",
     Participant       |-> "WaitStage1End"]

Stages == {"RunBootNodeStage1", "RunABPStage1", "WaitStage1End"}

\* C8: for every schedule and local account the role is the boot node iff the
\* account is at slot 0, an appointed producer iff it is not and is at one of
\* slots 1..21, a participant otherwise (also when the account is only at slot
\* 22 or later, or nowhere), and after the init hook Run enters the stage of
\* that role and no other.
C8_RoleResolution ==
    /\ (Shuffled /\ pc # "panic") => RoleStage = StageName[ClaimedRole]
    /\ pc \in Stages => pc = StageName[ClaimedRole]
    /\ (Len(trace) = 1 /\ trace[1].op = "DispatchInit" /\ trace[1].ok) => pc \in Stages

\* Run has entered the participant stage for an account that is in the
\* schedule, at slot 22 or later only.
C8_Witness ==
    /\ pc = "WaitStage1End"
    /\ \E i \in 23..Len(ShuffledProducers) : ShuffledProducers[i].AccountName = MyAccount

\* setMyProducerDefs has returned.
DefsSet == Shuffled /\ pc \notin {"panic", "setMyProducerDefs"}

Candidates == {Producers[i] : i \in 1..Len(Producers)}

\* C9: when the local account matches a candidate, the local producer
\* definitions are the first candidate with that account, followed by exactly
\* the schedule entries whose clone source is the local account, in schedule
\* order: no entry with another clone source, no other candidate.
C9_MyProducerDefs ==
    (DefsSet /\ \E c \in Candidates : c.AccountName = MyAccount) =>
        /\ err # NoProducerErr
        /\ MyProducerDefs # <<>>
        /\ \E i \in 1..Len(Producers) :
              /\ MyProducerDefs[1] = Producers[i]
              /\ Producers[i].AccountName = MyAccount
              /\ \A j \in 1..(i - 1) : Producers[j].AccountName # MyAccount
        /\ Tail(MyProducerDefs)
             = SelectSeq(ShuffledProducers, LAMBDA prod : prod.clonedFrom = MyAccount)
        /\ \A k \in 2..Len(MyProducerDefs) :
              /\ MyProducerDefs[k].clonedFrom = MyAccount
              /\ MyProducerDefs[k] \notin Candidates

\* The local account b has its candidate entry and several clones, in a
\* schedule that holds clones of other candidates too.
C9_Witness ==
    /\ pc = "DispatchInit"
    /\ MyAccount = NameB
    /\ Len(MyProducerDefs) > 2
    /\ \E i \in 1..Len(ShuffledProducers) :
          ShuffledProducers[i].clonedFrom \notin {<<>>, MyAccount}

\* C10: setMyProducerDefs fails with the unknown-producer error exactly when
\* the local account matches no entry of the launch file's candidate list, and
\* then leaves the stored definitions as they were; an account that is only
\* the name of a clone in the padded schedule is rejected too.
C10_UnknownProducer ==
    DefsSet =>
        /\ (err = NoProducerErr) = (\A c \in Candidates : c.AccountName # MyAccount)
        /\ err = NoProducerErr => MyProducerDefs = <<>> /\ pc = "exit"

\* The local account is the name of a clone and of no candidate, and was
\* rejected.
C10_Witness ==
    /\ pc = "exit"
    /\ err = NoProducerErr
    /\ \E i \in (Len(Producers) + 1)..Len(ShuffledProducers) :
          ShuffledProducers[i].AccountName = MyAccount

----------------------------------------------------------------------------
(* Properties of the kickstart data's encoding and decoding.               *)

Decoded == pc = "decoded"

\* The decoder has returned the encoded data: no error, the four fields as
\* they were encoded, and the private key parsed from the third.
DecodedPayload ==
    /\ err = ""
    /\ kickstart.BIOSP2PAddress = payload.BIOSP2PAddress
    /\ kickstart.PublicKeyUsed = payload.PublicKeyUsed
    /\ kickstart.PrivateKeyUsed = payload.PrivateKeyUsed
    /\ kickstart.GenesisJSON = payload.GenesisJSON
    /\ PrivateKeyString(EphemeralPrivateKey) = payload.PrivateKeyUsed

\* `text` without the characters of `chars`
Without(text, chars) == SelectSeq(text, LAMBDA c : c \notin chars)

\* C11: decoding the text produced by encoding kickstart data whose private
\* key parses gives back the same four fields, also when newlines were
\* inserted at any positions of the text before it is decoded.
C11_RoundTrip ==
    (Decoded /\ Without(lines, {CharNL}) = EncodeKickstart(payload)) => DecodedPayload

\* Data whose address needs escaping came back from a text cut in lines of
\* three characters.
C11_Witness ==
    /\ Decoded
    /\ payload.BIOSP2PAddress = QuotedAddress
    /\ payload.PublicKeyUsed # PublicKeyString(PublicKey(EphemeralPrivateKey))
    /\ Len(lines) > 3 /\ lines[4] = CharNL /\ lines[8] = CharNL
    /\ DecodedPayload

\* C12, as claimed: a valid encoded text with spaces, tabs or newlines
\* inserted at any positions decodes to the data of the text without them.
C12_StripsWhitespace ==
    (Decoded /\ Without(lines, Spaces) = EncodeKickstart(payload)) => DecodedPayload

\* Positions of `text` with a base64 digit somewhere before and somewhere
\* after: the inside of the token.
Inside(text) ==
    {i \in 1..Len(text) : /\ \E j \in 1..(i - 1) : text[j] \notin Spaces
                          /\ \E j \in (i + 1)..Len(text) : text[j] \notin Spaces}

\* C12, amended: newlines anywhere in the text, and spaces and tabs before
\* and after the token, are dropped before decoding; a space or a tab inside
\* the token makes the decoding fail with the base64 error.
C12_StripsNewlinesAndEnds ==
    (Decoded /\ Without(lines, Spaces) = EncodeKickstart(payload)) =>
        IF \E i \in Inside(lines) : lines[i] \in {CharSP, CharTAB}
        THEN err = "kickstart base64 decode" /\ kickstart = <<>> /\ EphemeralPrivateKey = NoKey
        ELSE DecodedPayload

\* A text followed by a tab was decoded.
C12_Witness ==
    /\ Decoded
    /\ lines[Len(lines)] = CharTAB
    /\ DecodedPayload

----------------------------------------------------------------------------
(* Properties of the appointed producer's and the participant's stages.    *)

\* The errors of waitOnKickstartData on a scanned text, as Run returns them
\* in the stage of the local account's role.
StageWrap == IF ClaimedRole = "AppointedProducer" THEN "abp stage1: " ELSE "waiting stage1: "

MalformedBase64 == StageWrap \o "kickstart base64 decode"
MalformedJSON   == StageWrap \o "unmarshal kickstart data"
InvalidKey      == StageWrap \o "unable to load private key"

\* The calls that follow a decoded kickstart text.
AfterDecodeOps ==
    {"DispatchConnectAsABP", "DispatchConnectAsParticipant", "GetAccount",
     "regproducer", "DispatchDone"}

\* C13: a scanned text that is not valid base64, or is valid base64 but not
\* the JSON of kickstart data, or holds a private key string that does not
\* parse, makes waitOnKickstartData fail with the base64, the JSON and the
\* key error respectively; the text is scanned once only, the run of the
\* appointed producer or participant fails with that error without any
\* connect hook, poll, regproducer or done hook, and the stored ephemeral
\* private key is left as it was.
C13_DecodeFailure ==
    \A i \in Positions("ScanLinesUntilBlank") :
        trace[i].ok =>
            LET raw    == base64Decode(Without(TrimSpace(lines), {CharNL}))
                parsed == jsonUnmarshal(raw.bytes)
                key    == NewPrivateKey(Field(parsed.fields, 3))
                failed == ~raw.ok \/ ~parsed.ok \/ ~key.ok
            IN  /\ Cardinality(Positions("ScanLinesUntilBlank")) = 1
                /\ failed =>
                      /\ pc = "exit"
                      /\ i = Len(trace)
                      /\ err = IF ~raw.ok THEN MalformedBase64
                               ELSE IF ~parsed.ok THEN MalformedJSON ELSE InvalidKey
                      /\ \A j \in 1..Len(trace) : trace[j].op \notin AfterDecodeOps
                      /\ chain = <<>>
                      /\ kickstart = <<>>
                      /\ EphemeralPrivateKey = NoKey
                /\ ~failed => err \notin {MalformedBase64, MalformedJSON, InvalidKey}

\* A participant has scanned a text that is base64 but no JSON, and failed.
C13_Witness ==
    /\ pc = "exit"
    /\ lines = NotJSONText
    /\ ClaimedRole = "Participant"
    /\ err = MalformedJSON

\* The system account as the appointed producer waits for it: exactly two
\* permissions, both with threshold 0.
Disabled == <<0, 0>>

\* C14: the appointed producer's stage dispatches the connect hook before its
\* first poll and returns only after a poll whose read succeeded and showed
\* exactly two permissions, both with threshold 0; a poll whose read failed
\* or showed anything else neither ends the stage nor fails it, the stage is
\* still polling; so an appointed producer submits regproducer only after
\* having read the disabled system account.
C14_PollUntilDisabled ==
    /\ \A i \in Positions("GetAccount") :
          \E j \in 1..(i - 1) :
              /\ trace[j].op = "DispatchConnectAsABP" /\ trace[j].ok
              /\ \A k \in 1..j : trace[k].op # "GetAccount"
    /\ (trace # <<>> /\ trace[Len(trace)].op = "GetAccount") =>
          IF trace[Len(trace)].ok /\ acct = Disabled
          THEN pc = "regproducer"
          ELSE pc = "GetAccount" /\ err = ""
    /\ \A i \in Positions("regproducer") :
          ClaimedRole = "AppointedProducer" =>
              /\ trace[i - 1].op = "GetAccount" /\ trace[i - 1].ok
              /\ acct = Disabled
              /\ Len(acct) = 2 /\ acct[1] = 0 /\ acct[2] = 0

\* An appointed producer has registered after a failed read, a read that
\* succeeded without ending the stage, and a read of the disabled account.
C14_Witness ==
    /\ Len(trace) = 7
    /\ trace[4].op = "GetAccount" /\ ~trace[4].ok
    /\ trace[5].op = "GetAccount" /\ trace[5].ok
    /\ trace[6].op = "GetAccount" /\ trace[6].ok
    /\ trace[7].op = "regproducer" /\ trace[7].ok

\* C15: the poll of the appointed producer has no timeout and no
\* cancellation: while the chain never reports the disabled system account
\* (the read fails or shows other permissions), a stage that is polling goes
\* on polling and regproducer is not reached; and if from some point on the
\* chain reports the disabled system account for ever, a stage that is
\* polling eventually returns, the run being then at regproducer.
C15_PollForever ==
    /\ [](eosio # Disabled) => [](pc = "GetAccount" => [](pc = "GetAccount" /\ err = ""))
    /\ <>[](eosio = Disabled) => [](pc = "GetAccount" => <>(pc = "regproducer"))

\* The stage has returned after MaxPolls reads or more, the last one of the
\* disabled account.
C15_Witness ==
    /\ pc = "regproducer"
    /\ polls = MaxPolls
    /\ acct = Disabled
    /\ eosio = Disabled

----------------------------------------------------------------------------
(* Properties of the boot node's stage.                                    *)

\* Errors of the boot node's steps 1 to 4 (key generation, key import and
\* genesis descriptor, boot hook) and of its step 5 (the boot sequence).
EarlyBootErrs ==
    {"boot node stage1: random key", "boot node stage1: ImportWIF",
     "boot node stage1: dispatch config_ready hook"}

SequenceErrs ==
    {"boot node stage1: getting actions for step",
     "boot node stage1: SignPushActions for step, chunk"}

acceptedPushes == SelectSeq(pushes, LAMBDA e : e.ok)

\* The batches on chain, without the registration.
batches == SelectSeq(chain, LAMBDA tx : "acts" \in DOMAIN tx)

IsPrefix(s, t) == Len(s) <= Len(t) /\ SubSeq(t, 1, Len(s)) = s

\* C16: a failure of the boot node in steps 1 to 4 comes before any batch was
\* submitted and leaves nothing on chain; a failure in step 5 leaves every
\* batch accepted before it on chain; what is on chain is never withdrawn or
\* changed, and nothing is submitted once the run has failed.
C16_NoRollback ==
    /\ [](/\ err \in EarlyBootErrs => chain = <<>> /\ pushes = <<>>
          /\ err \in SequenceErrs =>
                /\ ~trace[Len(trace)].ok
                /\ trace[Len(trace)].op \in {"Actions", "SignPushActions"}
                /\ chain = batches
          /\ Len(batches) = Len(acceptedPushes)
          /\ \A k \in 1..Len(batches) :
                /\ batches[k].step = acceptedPushes[k].arg.step
                /\ batches[k].idx = acceptedPushes[k].arg.idx
                /\ Len(batches[k].acts) = acceptedPushes[k].arg.size
                /\ batches[k].acts # <<>>)
    /\ [][/\ IsPrefix(chain, chain')
          /\ err # "" => chain' = chain /\ trace' = trace]_vars

\* The boot node has failed on the batch of the second step, with the two
\* batches of the first step on chain.
C16_Witness ==
    /\ pc = "exit"
    /\ err = "boot node stage1: SignPushActions for step, chunk"
    /\ BootSequence = TwoSteps
    /\ Len(chain) = 2
    /\ Len(pushes) = 3

----------------------------------------------------------------------------
(* Properties of the clones' account names.                                *)

Padded == Shuffled /\ pc # "panic" /\ Len(Producers) < 22

\* The first ten characters of a name, or the name when it is shorter.
Shortened(name) == SubSeq(name, 1, IF Len(name) < 10 THEN Len(name) ELSE 10)

\* The i-th clone of the schedule and the candidate it was made from.
Clone(i)       == ShuffledProducers[Len(Producers) + i]
CloneSource(i) == Producers[(1 + ((i - 1) % (Len(Producers) - 1))) + 1]

\* The i-th lowercase letter: 97 is 'a'.
Letter(i) == 96 + i

\* C17, as claimed: the account of the i-th clone is its source's account
\* shortened to at most 10 characters, directly followed by the i-th letter
\* of the alphabet and nothing else.
C17_CloneName ==
    Padded =>
        \A i \in 1..(22 - Len(Producers)) :
            Clone(i).AccountName = Shortened(CloneSource(i).AccountName) \o <<Letter(i)>>

\* C17, amended: the account of the i-th clone is its source's account
\* shortened to at most 10 characters, followed by a '.' and then by the i-th
\* letter of the alphabet and nothing else, 12 characters at most; in every
\* padded schedule the letter is within a..z.
C17_CloneNameDotted ==
    Padded =>
        \A i \in 1..(22 - Len(Producers)) :
            LET name == Clone(i).AccountName
            IN  /\ name = Shortened(CloneSource(i).AccountName) \o <<46, Letter(i)>>
                /\ Len(name) <= 12
                /\ name[Len(name)] \in 97..122

\* Two candidates were padded: the twentieth clone of longnamexyz is
\* longnamexy.t.
C17_Witness ==
    /\ Padded
    /\ Len(Producers) = 2
    /\ Producers[2].AccountName = NameLong
    /\ ShuffledProducers[22].AccountName
         = <<108, 111, 110, 103, 110, 97, 109, 101, 120, 121, 46, 116>>

AccountNames(list) == {list[i].AccountName : i \in 1..Len(list)}

Distinct(list) == Cardinality(AccountNames(list)) = Len(list)

\* C18, as claimed: for every list of 2 to 21 candidates with pairwise
\* distinct accounts, the 22 accounts of the padded schedule are pairwise
\* distinct: no clone has the account of another clone or of a candidate.
C18_UniqueAccounts ==
    (Padded /\ Len(Producers) >= 2 /\ Distinct(Producers)) =>
        /\ Len(ShuffledProducers) = 22
        /\ Distinct(ShuffledProducers)

----------------------------------------------------------------------------
(* Properties of the participant's stage.                                  *)

\* C19: a participant dispatches the connect-as-participant hook right after
\* the kickstart text was scanned and decoded, with the data decoded from
\* that text and exactly one producer definition, the one of the local
\* account; when the hook succeeds the stage returns at once: the next call
\* is the regproducer submission, and a participant's run reads no chain
\* state and makes no poll at all.
C19_ParticipantConnect ==
    \A i \in Positions("DispatchConnectAsParticipant") :
        LET hook == trace[i]
        IN  /\ ClaimedRole = "Participant"
            /\ i = 3
            /\ trace[2].op = "ScanLinesUntilBlank" /\ trace[2].ok
            /\ hook.arg[1] = waitOnKickstartData(lines).kickstart
            /\ waitOnKickstartData(lines).err = ""
            /\ hook.arg[2] = MyProducerDefs[1]
            /\ hook.arg[2].AccountName = MyAccount
            /\ hook.arg[2] \in Candidates
            /\ Len(MyProducerDefs) = 1
            /\ Positions("GetAccount") = {}
            /\ polls = 0 /\ acct = <<>>
            /\ Cardinality(Positions("DispatchConnectAsParticipant")) = 1
            /\ IF hook.ok
               THEN IF Len(trace) = i THEN pc = "regproducer"
                    ELSE trace[i + 1].op = "regproducer"
               ELSE Len(trace) = i /\ pc = "exit" /\ err = "waiting stage1: connect hook"

\* A participant has run to the end: init hook, scan, connect hook,
\* regproducer, done hook.
C19_Witness ==
    /\ pc = "exit" /\ err = ""
    /\ ClaimedRole = "Participant"
    /\ Len(trace) = 5
    /\ trace[3].op = "DispatchConnectAsParticipant"
    /\ CharNL \in {lines[i] : i \in 1..Len(lines)}

----------------------------------------------------------------------------
(* Properties of the boot node's hooks.                                    *)

\* The fields of the JSON object held by a base64 text, and of a JSON text.
TextFields(text) == jsonUnmarshal(base64Decode(text).bytes).fields
JSONFields(b)    == jsonUnmarshal(b).fields

\* C20: the boot node dispatches the boot hook before it submits any batch
\* and the kickstart hook only after every batch of every step was accepted;
\* the kickstart text holds the public and the private key of the ephemeral
\* key that was imported in the signer and handed to the boot hook, the
\* genesis descriptor handed to the boot hook, whose initial key is that
\* public key, and the configured p2p address.
C20_BootHooks ==
    /\ \A i \in Positions("SignPushActions") :
          \E j \in 1..(i - 1) : trace[j].op = "DispatchStartBIOSBoot" /\ trace[j].ok
    /\ \A i \in Positions("DispatchStartBIOSBoot") :
          /\ \A j \in 1..i : trace[j].op # "SignPushActions"
          /\ trace[i - 1].op = "ImportPrivateKey" /\ trace[i - 1].ok
          /\ trace[i].arg[3] = trace[i - 1].arg
          /\ trace[i].arg[3] \in keyBag
    /\ \A i \in Positions("DispatchPublishKickstartData") :
          LET fields == TextFields(trace[i].arg)
              boot   == trace[CHOOSE j \in Positions("DispatchStartBIOSBoot") : TRUE].arg
          IN  /\ \A j \in 1..(i - 1) : trace[j].ok
              /\ \A s \in 1..Len(BootSequence) : Accepted(s) = BootSequence[s].n
              /\ Cardinality(Positions("DispatchStartBIOSBoot")) = 1
              /\ Len(fields) = 4
              /\ fields[1] = SecretP2PAddress
              /\ fields[2] = boot[2]
              /\ fields[2] = PublicKeyString(PublicKey(EphemeralPrivateKey))
              /\ fields[3] = boot[3]
              /\ fields[3] = PrivateKeyString(EphemeralPrivateKey)
              /\ fields[3] \in keyBag
              /\ fields[4] = boot[1]
              /\ JSONFields(fields[4])[2] = fields[2]
              /\ JSONFields(fields[4])[1] = FormatTime(ShuffleBlock.Time)

\* The boot node has published the kickstart data of key 2 after its three
\* batches were accepted.
C20_Witness ==
    /\ pc = "regproducer"
    /\ trace[Len(trace)].op = "DispatchPublishKickstartData"
    /\ trace[Len(trace)].ok
    /\ EphemeralPrivateKey = 2
    /\ Len(chain) = 3

----------------------------------------------------------------------------
(* Properties of batching.                                                 *)

\* The chunks lo..hi of cs, one after the other.
RECURSIVE ConcatRange(_, _, _)
ConcatRange(cs, lo, hi) ==
    IF lo > hi THEN <<>>
    ELSE IF lo = hi THEN cs[lo]
    ELSE LET mid == (lo + hi) \div 2
         IN  ConcatRange(cs, lo, mid) \o ConcatRange(cs, mid + 1, hi)

Concat(cs) == ConcatRange(cs, 1, Len(cs))

\* Steps whose actions were resolved to none.
EmptySteps ==
    {trace[i].arg : i \in {j \in Positions("Actions") :
                              trace[j].ok /\ BootSequence[trace[j].arg].n = 0}}

\* A boot sequence step without actions causes no submission, and no batch
\* is submitted without actions.
NoEmptySubmission ==
    /\ \A k \in 1..Len(pushes) :
          /\ pushes[k].arg.step \notin EmptySteps
          /\ pushes[k].arg.size >= 1
    /\ \A k \in 1..Len(batches) :
          /\ batches[k].step \notin EmptySteps
          /\ batches[k].acts # <<>>

====
